---- MODULE Spec2Model ----
(***************************************************************************)
(* Model of send_email_reminders.py: a script that reads its SMTP settings *)
(* and a JSON tenant list from the environment, sends one reminder per     *)
(* tenant over its own SMTP session, then mails the log to the landlord.   *)
(***************************************************************************)
EXTENDS Integers, Sequences, FiniteSets, TLC

\* ---------------------------------------------------------------- bounds
MaxTenants == 3

\* ------------------------------------------------------- python values
\* A JSON/Python value is a record [t |-> type, v |-> text].
JStr(s) == [t |-> "str", v |-> s]
JInt(s) == [t |-> "int", v |-> s]
JNull == [t |-> "null", v |-> "null"]
Absent == [t |-> "absent", v |-> ""]

\* str(x) as an f-string renders it: None for JSON null, the text otherwise.
PyStr(x) == IF x.t = "null" THEN "None" ELSE x.v

\* Strings float() accepts, and integers beyond the range of a double (yet
\* short enough for json.loads to parse).
NumericStrings == {"950.5", "1200"}
HugeInts == {"1e400"}

\* float(x) (line 115): the value converts, or raises the named exception.
PyFloat(x) ==
    CASE x.t = "str" -> IF x.v \in NumericStrings THEN "ok" ELSE "ValueError"
      [] x.t = "int" -> IF x.v \in HugeInts THEN "OverflowError" ELSE "ok"
      [] OTHER -> "TypeError"

\* Text the email package can encode: a lone surrogate (JSON "\ud800") is not.
LoneSurrogate == "\\ud800"
Encodable(x) == x.v # LoneSurrogate

\* ------------------------------------------------------------- tenants
required_fields == <<"email", "name", "payment_amount", "payment_description">>
RequiredSet == {required_fields[i] : i \in 1..Len(required_fields)}

\* One element of the TENANTS array.  type is the Python type of the
\* element; keys is what `field in tenant` finds in it (the keys of a dict,
\* the items of a list, the substrings of a str).
Tenant(type, keys, email, name, amount, descr, loc) ==
    [type |-> type, keys |-> keys, email |-> email, name |-> name,
     payment_amount |-> amount, payment_description |-> descr,
     property_location |-> loc]

DictTenant(keys, email, name, amount) ==
    Tenant("dict", keys,
           IF "email" \in keys THEN email ELSE Absent,
           IF "name" \in keys THEN name ELSE Absent,
           IF "payment_amount" \in keys THEN amount ELSE Absent,
           IF "payment_description" \in keys THEN JStr("May rent") ELSE Absent,
           Absent)

NonDict(type, keys) == Tenant(type, keys, Absent, Absent, Absent, Absent, Absent)

T_valid == DictTenant(RequiredSet, JStr("a@x.com"), JStr("Jo"), JStr("950.5"))
T_missing == DictTenant({"email", "payment_amount"}, JStr("b@x.com"), Absent, JStr("1200"))
T_badamount == DictTenant(RequiredSet, JStr("c@x.com"), JStr("Cy"), JStr("abc"))
T_nullamount == DictTenant(RequiredSet, JStr("d@x.com"), JStr("Di"), JNull)
T_hugeamount == DictTenant(RequiredSet, JStr("e@x.com"), JStr("Ed"), JInt("1e400"))
T_intemail == DictTenant(RequiredSet, JInt("5"), JStr("Flo"), JInt("1200"))
T_surrogate == DictTenant(RequiredSet, JStr("g@x.com"), JStr(LoneSurrogate), JStr("1200"))
T_nullemail == DictTenant(RequiredSet, JNull, JStr("Nu"), JStr("1200"))
T_str == NonDict("str", {})
T_listall == NonDict("list", RequiredSet)
T_scalar == NonDict("int", {})

TenantSamples ==
    {T_valid, T_missing, T_badamount, T_nullamount, T_hugeamount,
     T_intemail, T_surrogate, T_nullemail, T_str, T_listall, T_scalar}

RECURSIVE SeqsUpTo(_, _)
SeqsUpTo(S, n) ==
    IF n = 0 THEN {<<>>}
    ELSE LET shorter == SeqsUpTo(S, n - 1)
         IN shorter \cup {Append(s, x) : s \in {q \in shorter : Len(q) = n - 1}, x \in S}

TenantLists == SeqsUpTo(TenantSamples, MaxTenants)

\* tenant.get(key, default): only a dict has .get
HasGet(tenant) == tenant.type = "dict"
Get(tenant, key, default) == IF key \in tenant.keys THEN tenant[key] ELSE default

\* `field in tenant` (line 101) raises TypeError on a value that is not a container.
IsContainer(tenant) == tenant.type \in {"dict", "list", "str"}

\* Variant: only the first missing field is reported.
missing_fields_First(t) ==
    LET all == SelectSeq(required_fields, LAMBDA f : f \notin t.keys)
    IN IF all = <<>> THEN <<>> ELSE <<Head(all)>>

\* missing_fields (lines 100-101), in the order of required_fields.
missing_fields(tenant) == SelectSeq(required_fields, LAMBDA f : f \notin tenant.keys)

\* ------------------------------------------------------- configuration
\* os.getenv gives None for an unset variable, else its text.
None == "<None>"
SettingValues == {None, "", "set"}
PortValues == {None, "", "587", "abc"}

\* int(SMTP_PORT) (line 77) succeeds on these texts and raises ValueError otherwise.
IntegerStrings == {"587"}

\* Variant: a port that is not an integer is let through.
ParsesAsInt_Lenient(s) == TRUE

ParsesAsInt(s) == s \in IntegerStrings

smtp_var_names == <<"SMTP_SERVER", "SMTP_PORT", "EMAIL_ADDRESS", "EMAIL_PASSWORD", "LANDLORD_EMAIL">>

\* `not var_value` (line 49): None and the empty string are falsy.
Falsy(value) == value = None \/ value = ""

\* missing_smtp_vars (lines 41-50)
missing_smtp_vars(e) == SelectSeq(smtp_var_names, LAMBDA n : Falsy(e[n]))

\* The TENANTS setting.  raw is what os.getenv returns (None, "", or text).
\* For text, json is what the text is as JSON ("invalid", or the type of the
\* value, whose elements are items) and raises is what json.loads does on it
\* (line 64): "none", "JSONDecodeError" on text that is not JSON, "ValueError"
\* on an integer literal of more than 4300 digits, "RecursionError" on
\* nesting deeper than the interpreter's recursion limit.
TenantsEnv(raw, json, items, raises) ==
    [raw |-> raw, json |-> json, items |-> items, raises |-> raises]
Unread == TenantsEnv("<unread>", "none", <<>>, "none")
TenantsEnvValues ==
    {TenantsEnv(None, "none", <<>>, "none"), TenantsEnv("", "none", <<>>, "none"),
     TenantsEnv("text", "invalid", <<>>, "JSONDecodeError"),
     TenantsEnv("text", "invalid", <<>>, "RecursionError"),
     TenantsEnv("text", "dict", <<T_str>>, "none"),
     TenantsEnv("text", "str", <<T_str>>, "none"),
     TenantsEnv("text", "int", <<>>, "none"),
     TenantsEnv("text", "int", <<>>, "ValueError"),
     TenantsEnv("text", "list", <<T_scalar>>, "ValueError"),
     TenantsEnv("text", "list", <<T_listall>>, "RecursionError")}
    \cup {TenantsEnv("text", "list", l, "none") : l \in TenantLists}

\* Lines 63-69: json.loads raised something `except json.JSONDecodeError`
\* does not catch; the module dies with a traceback.
LoadUncaught(te) ==
    /\ ~Falsy(te.raw)
    /\ te.raises \notin {"none", "JSONDecodeError"}

\* Lines 58-72: the tenant list the module ends up with.
LoadedTenants(te) ==
    IF Falsy(te.raw) THEN <<>>
    ELSE IF te.raises = "JSONDecodeError" THEN <<>>
    ELSE IF te.json # "list" THEN <<>>
    ELSE te.items

\* Lines 60, 66, 70: the error logged while loading, if any.
LoadError(te) ==
    IF Falsy(te.raw) THEN {"TENANTS missing"}
    ELSE IF te.raises = "JSONDecodeError" THEN {"TENANTS invalid JSON"}
    ELSE IF te.json # "list" THEN {"TENANTS not an array"}
    ELSE {}

\* ---------------------------------------------------------------- state
VARIABLES
    pc,              \* position in the script
    env,             \* the five SMTP settings as read from the environment
    TENANTS_ENV,     \* the TENANTS setting as read
    TENANTS,         \* the loaded tenant list
    idx,             \* position of the for loop of line 273 (1-based)
    success_count, failure_count, failed_tenants,
    msg,             \* the message built for the current tenant
    open,            \* number of SMTP sessions currently open
    carried,         \* messages handed to the session opened last
    pending,         \* exception leaving the with block: "none", "smtp", "other"
    exit_code,       \* -1 while the process runs
    logged,          \* error lines written to the log
    opened,          \* SMTP(...) calls made for each tenant index
    log_opened,      \* SMTP(...) calls made by send_log_email
    phases,          \* phases entered so far, in order
    entry,           \* counters when the current send_email_reminder call began
    all_ok,          \* every SMTP step of the reminder phase so far succeeded
    closed           \* number of sessions closed so far

vars == <<pc, env, TENANTS_ENV, TENANTS, idx, success_count, failure_count,
          failed_tenants, msg, open, carried, pending, exit_code, logged,
          opened, log_opened, phases, entry, all_ok, closed>>

Message(to, name, amount, location, description, attachment) ==
    [to |-> to, name |-> name, amount |-> amount, location |-> location,
     description |-> description, attachment |-> attachment]
NoMsg == Message(Absent, Absent, Absent, Absent, Absent, FALSE)

Init ==
    /\ pc = "start"
    /\ env \in [SMTP_SERVER : SettingValues, SMTP_PORT : PortValues,
                EMAIL_ADDRESS : SettingValues, EMAIL_PASSWORD : SettingValues,
                LANDLORD_EMAIL : SettingValues]
    /\ TENANTS_ENV = Unread
    /\ TENANTS = <<>>
    /\ idx = 0
    /\ success_count = 0
    /\ failure_count = 0
    /\ failed_tenants = <<>>
    /\ msg = NoMsg
    /\ open = 0
    /\ carried = 0
    /\ pending = "none"
    /\ exit_code = -1
    /\ logged = {}
    /\ opened = [i \in 1..MaxTenants |-> 0]
    /\ log_opened = 0
    /\ phases = <<>>
    /\ entry = [s |-> 0, f |-> 0, n |-> 0]
    /\ all_ok = TRUE
    /\ closed = 0

\* exit(1) (lines 55, 80)
Exit1 == pc' = "exited" /\ exit_code' = 1

\* Lines 34-55: read the SMTP settings, exit(1) when one is missing.
CheckSmtpVars ==
    /\ pc = "start"
    /\ IF missing_smtp_vars(env) # <<>>
       THEN /\ logged' = logged \cup {"Missing SMTP environment variables"}
            /\ Exit1
       ELSE /\ pc' = "load_tenants"
            /\ UNCHANGED <<logged, exit_code>>
    /\ UNCHANGED <<env, TENANTS_ENV, TENANTS, idx, success_count, failure_count,
                   failed_tenants, msg, open, carried, pending, opened,
                   log_opened, phases, entry, all_ok, closed>>

\* Lines 57-74: read and parse TENANTS.  An exception of json.loads other
\* than JSONDecodeError is not caught: the interpreter prints the traceback
\* and exits with 1, before the port is parsed.
LoadTenants ==
    /\ pc = "load_tenants"
    /\ \E te \in TenantsEnvValues :
         /\ TENANTS_ENV' = te
         /\ IF LoadUncaught(te)
            THEN /\ pc' = "load_crashed"
                 /\ exit_code' = 1
                 /\ UNCHANGED <<TENANTS, logged>>
            ELSE /\ TENANTS' = LoadedTenants(te)
                 /\ logged' = logged \cup LoadError(te)
                 /\ pc' = "parse_port"
                 /\ UNCHANGED exit_code
    /\ UNCHANGED <<env, idx, success_count, failure_count, failed_tenants, msg,
                   open, carried, pending, opened, log_opened,
                   phases, entry, all_ok, closed>>

\* Lines 76-85: SMTP_PORT = int(SMTP_PORT), exit(1) on ValueError; then the
\* counters are initialised.
ParsePort ==
    /\ pc = "parse_port"
    /\ IF ParsesAsInt(env.SMTP_PORT)
       THEN /\ pc' = "main"
            /\ UNCHANGED <<logged, exit_code>>
       ELSE /\ logged' = logged \cup {"Invalid SMTP_PORT value"}
            /\ Exit1
    /\ success_count' = 0
    /\ failure_count' = 0
    /\ failed_tenants' = <<>>
    /\ UNCHANGED <<env, TENANTS_ENV, TENANTS, idx, msg, open, carried, pending,
                   opened, log_opened, phases, entry, all_ok, closed>>

\* ------------------------------------------------------ reminder phase
\* The tenant the for loop of line 273 is at.
tenant == TENANTS[idx]

\* What a step against the SMTP server can do: succeed, raise an
\* smtplib.SMTPException, or raise something else (OSError, ssl.SSLError).
Outcomes == {"ok", "smtp", "other"}

Reason(kind, fields, text) == [kind |-> kind, fields |-> fields, text |-> text]

\* The dictionaries appended at lines 106-110, 120-124, 199-203, 209-213.
FailureRecord(t, reason) ==
    [tenant |-> Get(t, "name", JStr("Unknown")),
     email |-> Get(t, "email", JStr("Unknown")),
     reason |-> reason]

Snapshot == [s |-> success_count, f |-> failure_count, n |-> Len(failed_tenants)]

\* tenant['payment_amount'] then float() (line 115): indexing a list or a str
\* by a string raises TypeError.
ConvertAmount(t) ==
    IF t.type # "dict" THEN "TypeError" ELSE PyFloat(t.payment_amount)

\* Lines 265-274, entry: the empty list returns at once, else the loop starts.
SendEmailsToAllTenants ==
    /\ pc = "main"
    /\ phases' = Append(phases, "SendingReminders")
    /\ IF TENANTS = <<>>
       THEN pc' = "log_email" /\ UNCHANGED idx
       ELSE pc' = "validate" /\ idx' = 1
    /\ entry' = Snapshot
    /\ UNCHANGED <<env, TENANTS_ENV, TENANTS, success_count, failure_count,
                   failed_tenants, msg, open, carried, pending, exit_code,
                   logged, opened, log_opened, all_ok, closed>>

\* Lines 97-125: required fields, then the amount.
ValidateTenant ==
    /\ pc = "validate"
    /\ IF ~IsContainer(tenant)
       THEN \* `field not in tenant` raises TypeError
            /\ pc' = "unexpected"
            /\ UNCHANGED <<failure_count, failed_tenants, logged>>
       ELSE IF missing_fields(tenant) # <<>>
       THEN /\ logged' = logged \cup {"Missing fields"}
            /\ failure_count' = failure_count + 1
            /\ IF HasGet(tenant)
               THEN /\ failed_tenants' = Append(failed_tenants,
                          FailureRecord(tenant,
                              Reason("Missing fields", missing_fields(tenant), "")))
                    /\ pc' = "returned"
               ELSE \* tenant.get raises AttributeError at line 107
                    /\ pc' = "unexpected"
                    /\ UNCHANGED failed_tenants
       ELSE IF ConvertAmount(tenant) = "ok"
       THEN /\ pc' = "build"
            /\ UNCHANGED <<failure_count, failed_tenants, logged>>
       ELSE IF ConvertAmount(tenant) \in {"ValueError", "TypeError"}
       THEN IF HasGet(tenant)
            THEN /\ logged' = logged \cup {"Invalid payment_amount"}
                 /\ failure_count' = failure_count + 1
                 /\ failed_tenants' = Append(failed_tenants,
                       FailureRecord(tenant,
                           Reason("Invalid payment_amount", <<>>,
                                  PyStr(Get(tenant, "payment_amount", JNull)))))
                 /\ pc' = "returned"
            ELSE \* tenant.get raises AttributeError at line 117
                 /\ pc' = "unexpected"
                 /\ UNCHANGED <<failure_count, failed_tenants, logged>>
       ELSE \* OverflowError is not caught at line 116
            /\ pc' = "unexpected"
            /\ UNCHANGED <<failure_count, failed_tenants, logged>>
    /\ UNCHANGED <<env, TENANTS_ENV, TENANTS, idx, success_count, msg, open,
                   carried, pending, exit_code, opened, log_opened, phases,
                   entry, all_ok, closed>>

\* Lines 127-183: render the body and build the MIME message.  MIMEText
\* raises UnicodeEncodeError on text it cannot encode.
BuildMessage ==
    /\ pc = "build"
    /\ LET location == Get(tenant, "property_location", JStr("N/A"))
       IN IF Encodable(tenant.name) /\ Encodable(location)
             /\ Encodable(tenant.payment_description)
          THEN /\ msg' = Message(tenant.email, tenant.name, tenant.payment_amount,
                                 location, tenant.payment_description, FALSE)
               /\ pc' = "connect"
          ELSE /\ pc' = "unexpected"
               /\ UNCHANGED msg
    /\ UNCHANGED <<env, TENANTS_ENV, TENANTS, idx, success_count, failure_count,
                   failed_tenants, open, carried, pending, exit_code, logged,
                   opened, log_opened, phases, entry, all_ok, closed>>

\* Line 187: smtplib.SMTP(SMTP_SERVER, SMTP_PORT) connects.
Connect ==
    /\ pc = "connect"
    /\ opened' = [opened EXCEPT ![idx] = @ + 1]
    /\ \E r \in Outcomes :
         /\ all_ok' = (all_ok /\ r = "ok")
         /\ CASE r = "ok" -> open' = open + 1 /\ carried' = 0 /\ pc' = "starttls"
              [] r = "smtp" -> pc' = "smtp_error" /\ UNCHANGED <<open, carried>>
              [] OTHER -> pc' = "unexpected" /\ UNCHANGED <<open, carried>>
    /\ UNCHANGED <<env, TENANTS_ENV, TENANTS, idx, success_count, failure_count,
                   failed_tenants, msg, pending, exit_code, logged, log_opened,
                   phases, entry, closed>>

\* What a command inside a session can do: the outcomes above, or the
\* connection is lost (dropped by the server, or a 421 reply): smtplib then
\* closes the socket inside the call and raises an SMTPException
\* (SMTPServerDisconnected, SMTPSenderRefused, ...).
SessionOutcomes == Outcomes \cup {"disconnect"}

\* starttls() can moreover fail in the TLS handshake itself: wrap_socket
\* raises ssl.SSLError or an OSError such as BrokenPipeError, not an
\* SMTPException, and has closed the socket by then.
TlsOutcomes == SessionOutcomes \cup {"handshake"}

\* The exception class a failed command leaves the with block with.
Raised(r) ==
    CASE r = "disconnect" -> "smtp"
      [] r = "handshake" -> "other"
      [] OTHER -> r

\* The socket after a failed command: already closed on a lost connection
\* or a failed handshake, left to the with block otherwise.
SocketAfter(r) ==
    IF r \in {"disconnect", "handshake"}
    THEN open' = open - 1 /\ closed' = closed + 1
    ELSE UNCHANGED <<open, closed>>

\* A step inside a with block, with the outcomes its command has: on success
\* go to next, on an exception leave the block with it pending.
SessionStep(next, outcomes) ==
    \E r \in outcomes :
      /\ all_ok' = (all_ok /\ r = "ok")
      /\ SocketAfter(r)
      /\ IF r = "ok"
         THEN pc' = next /\ UNCHANGED pending
         ELSE pc' = "with_exit" /\ pending' = Raised(r)

\* Line 188
StartTls ==
    /\ pc = "starttls"
    /\ SessionStep("login", TlsOutcomes)
    /\ UNCHANGED <<env, TENANTS_ENV, TENANTS, idx, success_count, failure_count,
                   failed_tenants, msg, carried, exit_code, logged,
                   opened, log_opened, phases, entry>>

\* Line 189
Login ==
    /\ pc = "login"
    /\ SessionStep("sendmail", SessionOutcomes)
    /\ UNCHANGED <<env, TENANTS_ENV, TENANTS, idx, success_count, failure_count,
                   failed_tenants, msg, carried, exit_code, logged,
                   opened, log_opened, phases, entry>>

\* msg.as_string() (line 191) raises AttributeError on a To header that is
\* neither a str nor None.
Serialisable(m) == m.to.t \in {"str", "null"}

\* SMTP.sendmail iterates over the recipients once MAIL FROM is accepted;
\* None as the recipient list raises TypeError there.
Deliverable(m) == m.to.t = "str"

\* Lines 190-191: serialise the message and hand it to the session.
Sendmail ==
    /\ pc = "sendmail"
    /\ pc' = "with_exit"
    /\ IF ~Serialisable(msg)
       THEN pending' = "other" /\ UNCHANGED <<carried, all_ok, open, closed>>
       ELSE \E r \in SessionOutcomes :
              /\ all_ok' = (all_ok /\ r = "ok")
              /\ SocketAfter(r)
              /\ IF r # "ok"
                 THEN pending' = Raised(r) /\ UNCHANGED carried
                 ELSE IF Deliverable(msg)
                 THEN carried' = carried + 1 /\ UNCHANGED pending
                 ELSE pending' = "other" /\ UNCHANGED carried
    /\ UNCHANGED <<env, TENANTS_ENV, TENANTS, idx, success_count, failure_count,
                   failed_tenants, msg, exit_code, logged, opened,
                   log_opened, phases, entry>>

\* What the QUIT sent by SMTP.__exit__ can do: 221, or another reply, which
\* raises SMTPResponseException.  On a socket that is already closed QUIT
\* raises SMTPServerDisconnected, which __exit__ swallows.
QuitOutcomes == {"ok", "smtp"}
QuitReplies(o) == IF o = 0 THEN {"ok"} ELSE QuitOutcomes

\* The exception in flight once the with block is left.
AfterExit(p, quit) == IF quit = "smtp" THEN "smtp" ELSE p

\* close() in the finally of SMTP.__exit__: closes the socket if there is one.
AfterClose(n) == IF n > 0 THEN n - 1 ELSE n

\* Variant: the session is closed only when the block ends normally.
WithExit_Leak ==
    /\ pc = "with_exit"
    /\ open' = IF pending = "none" THEN AfterClose(open) ELSE open
    /\ closed' = closed + (open - open')
    /\ pending' = "none"
    /\ \E q \in QuitReplies(open) :
         /\ all_ok' = (all_ok /\ q = "ok")
         /\ pc' = CASE AfterExit(pending, q) = "none" -> "sent"
                    [] AfterExit(pending, q) = "smtp" -> "smtp_error"
                    [] OTHER -> "unexpected"
    /\ UNCHANGED <<env, TENANTS_ENV, TENANTS, idx, success_count, failure_count,
                   failed_tenants, msg, carried, exit_code, logged, opened,
                   log_opened, phases, entry>>

\* End of the with block of line 187: QUIT, then close() in a finally.
WithExit ==
    /\ pc = "with_exit"
    /\ open' = AfterClose(open)
    /\ closed' = closed + (open - open')
    /\ pending' = "none"
    /\ \E q \in QuitReplies(open) :
         /\ all_ok' = (all_ok /\ q = "ok")
         /\ pc' = CASE AfterExit(pending, q) = "none" -> "sent"
                    [] AfterExit(pending, q) = "smtp" -> "smtp_error"
                    [] OTHER -> "unexpected"
    /\ UNCHANGED <<env, TENANTS_ENV, TENANTS, idx, success_count, failure_count,
                   failed_tenants, msg, carried, exit_code, logged, opened,
                   log_opened, phases, entry>>

\* Lines 192-194
RecordSuccess ==
    /\ pc = "sent"
    /\ success_count' = success_count + 1
    /\ pc' = "returned"
    /\ UNCHANGED <<env, TENANTS_ENV, TENANTS, idx, failure_count, failed_tenants,
                   msg, open, carried, pending, exit_code, logged, opened,
                   log_opened, phases, entry, all_ok, closed>>

\* Variant: an SMTP error sends the tenant back to connect once more.
SmtpErrorHandler_Retry ==
    /\ pc = "smtp_error"
    /\ IF opened[idx] < 2
       THEN /\ pc' = "connect"
            /\ UNCHANGED <<logged, failure_count, failed_tenants>>
       ELSE /\ logged' = logged \cup {"SMTP error"}
            /\ failure_count' = failure_count + 1
            /\ failed_tenants' = Append(failed_tenants,
                   FailureRecord(tenant, Reason("SMTP error", <<>>, "")))
            /\ pc' = "returned"
    /\ UNCHANGED <<env, TENANTS_ENV, TENANTS, idx, success_count, msg, open,
                   carried, pending, exit_code, opened, log_opened, phases,
                   entry, all_ok, closed>>

\* Lines 195-203: except smtplib.SMTPException
SmtpErrorHandler ==
    /\ pc = "smtp_error"
    /\ IF HasGet(tenant)
       THEN /\ logged' = logged \cup {"SMTP error"}
            /\ failure_count' = failure_count + 1
            /\ failed_tenants' = Append(failed_tenants,
                   FailureRecord(tenant, Reason("SMTP error", <<>>, "")))
            /\ pc' = "returned"
       ELSE /\ pc' = "unexpected"
            /\ UNCHANGED <<logged, failure_count, failed_tenants>>
    /\ UNCHANGED <<env, TENANTS_ENV, TENANTS, idx, success_count, msg, open,
                   carried, pending, exit_code, opened, log_opened, phases,
                   entry, all_ok, closed>>

\* Lines 205-213: except Exception.  The handler itself calls tenant.get at
\* line 207; on a tenant without .get the AttributeError leaves the function,
\* the loop and check_and_send_email, and the interpreter exits with 1.
UnexpectedHandler ==
    /\ pc = "unexpected"
    /\ IF HasGet(tenant)
       THEN /\ logged' = logged \cup {"Unexpected error"}
            /\ failure_count' = failure_count + 1
            /\ failed_tenants' = Append(failed_tenants,
                   FailureRecord(tenant, Reason("Unexpected error", <<>>, "")))
            /\ pc' = "returned"
            /\ UNCHANGED exit_code
       ELSE /\ pc' = "crashed"
            /\ exit_code' = 1
            /\ UNCHANGED <<logged, failure_count, failed_tenants>>
    /\ UNCHANGED <<env, TENANTS_ENV, TENANTS, idx, success_count, msg, open,
                   carried, pending, opened, log_opened, phases, entry, all_ok, closed>>

\* Lines 273-274: the call returned; next tenant, or leave the loop.
NextTenant ==
    /\ pc = "returned"
    /\ IF idx < Len(TENANTS)
       THEN idx' = idx + 1 /\ pc' = "validate"
       ELSE pc' = "log_email" /\ UNCHANGED idx
    /\ entry' = Snapshot
    /\ UNCHANGED <<env, TENANTS_ENV, TENANTS, success_count, failure_count,
                   failed_tenants, msg, open, carried, pending, exit_code,
                   logged, opened, log_opened, phases, all_ok, closed>>

\* ----------------------------------------------------------- log phase
\* The log file at line 240: there, gone, or there but unreadable.
LogFileStates == {"present", "missing", "unreadable"}

\* Lines 216-249: send_log_email builds the landlord's message.
BuildLogMessage ==
    /\ pc = "log_email"
    /\ phases' = Append(phases, "SendingLog")
    /\ \E f \in LogFileStates :
         /\ msg' = Message(JStr("landlord"), Absent, Absent, Absent, Absent,
                           f = "present")
         /\ logged' = IF f = "missing" THEN logged \cup {"Log file not found"}
                      ELSE logged
         /\ pc' = IF f = "unreadable" THEN "log_unexpected" ELSE "log_connect"
    /\ UNCHANGED <<env, TENANTS_ENV, TENANTS, idx, success_count, failure_count,
                   failed_tenants, open, carried, pending, exit_code, opened,
                   log_opened, entry, all_ok, closed>>

\* Line 252
LogConnect ==
    /\ pc = "log_connect"
    /\ log_opened' = log_opened + 1
    /\ \E r \in Outcomes :
         CASE r = "ok" -> open' = open + 1 /\ carried' = 0 /\ pc' = "log_starttls"
           [] r = "smtp" -> pc' = "log_smtp_error" /\ UNCHANGED <<open, carried>>
           [] OTHER -> pc' = "log_unexpected" /\ UNCHANGED <<open, carried>>
    /\ UNCHANGED <<env, TENANTS_ENV, TENANTS, idx, success_count, failure_count,
                   failed_tenants, msg, pending, exit_code, logged, opened,
                   phases, entry, all_ok, closed>>

LogSessionStep(next, outcomes) ==
    \E r \in outcomes :
      /\ SocketAfter(r)
      /\ IF r = "ok"
         THEN pc' = next /\ UNCHANGED pending
         ELSE pc' = "log_with_exit" /\ pending' = Raised(r)

\* Line 253
LogStartTls ==
    /\ pc = "log_starttls"
    /\ LogSessionStep("log_login", TlsOutcomes)
    /\ UNCHANGED <<env, TENANTS_ENV, TENANTS, idx, success_count, failure_count,
                   failed_tenants, msg, carried, exit_code, logged,
                   opened, log_opened, phases, entry, all_ok>>

\* Line 254
LogLogin ==
    /\ pc = "log_login"
    /\ LogSessionStep("log_sendmail", SessionOutcomes)
    /\ UNCHANGED <<env, TENANTS_ENV, TENANTS, idx, success_count, failure_count,
                   failed_tenants, msg, carried, exit_code, logged,
                   opened, log_opened, phases, entry, all_ok>>

\* Line 255
LogSendmail ==
    /\ pc = "log_sendmail"
    /\ pc' = "log_with_exit"
    /\ \E r \in SessionOutcomes :
         /\ SocketAfter(r)
         /\ IF r = "ok"
            THEN carried' = carried + 1 /\ UNCHANGED pending
            ELSE pending' = Raised(r) /\ UNCHANGED carried
    /\ UNCHANGED <<env, TENANTS_ENV, TENANTS, idx, success_count, failure_count,
                   failed_tenants, msg, exit_code, logged, opened,
                   log_opened, phases, entry, all_ok>>

\* End of the with block of line 252.
LogWithExit ==
    /\ pc = "log_with_exit"
    /\ open' = AfterClose(open)
    /\ closed' = closed + (open - open')
    /\ pending' = "none"
    /\ \E q \in QuitReplies(open) :
         pc' = CASE AfterExit(pending, q) = "none" -> "log_sent"
                 [] AfterExit(pending, q) = "smtp" -> "log_smtp_error"
                 [] OTHER -> "log_unexpected"
    /\ UNCHANGED <<env, TENANTS_ENV, TENANTS, idx, success_count, failure_count,
                   failed_tenants, msg, carried, exit_code, logged, opened,
                   log_opened, phases, entry, all_ok>>

\* How send_log_email ends: line 257, lines 259-260, lines 261-262.
LogReturn(line) ==
    /\ logged' = logged \cup line
    /\ pc' = "complete"
    /\ UNCHANGED <<env, TENANTS_ENV, TENANTS, idx, success_count, failure_count,
                   failed_tenants, msg, open, carried, pending, exit_code,
                   opened, log_opened, phases, entry, all_ok, closed>>

LogSent == pc = "log_sent" /\ LogReturn({})
LogSmtpErrorHandler == pc = "log_smtp_error" /\ LogReturn({"SMTP error (log email)"})
LogUnexpectedHandler == pc = "log_unexpected" /\ LogReturn({"Unexpected error (log email)"})

\* Line 287, then the interpreter exits with 0.
Complete ==
    /\ pc = "complete"
    /\ pc' = "done"
    /\ exit_code' = 0
    /\ UNCHANGED <<env, TENANTS_ENV, TENANTS, idx, success_count, failure_count,
                   failed_tenants, msg, open, carried, pending, logged, opened,
                   log_opened, phases, entry, all_ok, closed>>

Next ==
    \/ CheckSmtpVars
    \/ LoadTenants
    \/ ParsePort
    \/ SendEmailsToAllTenants
    \/ ValidateTenant
    \/ BuildMessage
    \/ Connect
    \/ StartTls
    \/ Login
    \/ Sendmail
    \/ WithExit
    \/ RecordSuccess
    \/ SmtpErrorHandler
    \/ UnexpectedHandler
    \/ NextTenant
    \/ BuildLogMessage
    \/ LogConnect
    \/ LogStartTls
    \/ LogLogin
    \/ LogSendmail
    \/ LogWithExit
    \/ LogSent
    \/ LogSmtpErrorHandler
    \/ LogUnexpectedHandler
    \/ Complete

Spec == Init /\ [][Next]_vars

Terminated == pc \in {"done", "exited", "crashed", "load_crashed"}

TypeOK ==
    /\ open \in 0..2
    /\ success_count \in 0..MaxTenants
    /\ failure_count \in 0..MaxTenants
    /\ Len(failed_tenants) <= MaxTenants

\* --------------------------------------------------------------- claims
BothPhases == <<"SendingReminders", "SendingLog">>

\* A setting is unusable when unset or empty; the port also when it is not
\* the text of an integer.
FatalConfig ==
    \/ \E n \in {"SMTP_SERVER", "SMTP_PORT", "EMAIL_ADDRESS", "EMAIL_PASSWORD",
                 "LANDLORD_EMAIL"} : env[n] \in {None, ""}
    \/ env.SMTP_PORT \notin IntegerStrings

\* The tenant passes the validation of lines 97-125.
Valid(t) ==
    /\ t.type = "dict"
    /\ RequiredSet \subseteq t.keys
    /\ PyFloat(t.payment_amount) = "ok"

\* The message of the tenant can be rendered and built (lines 127-183).
Buildable(t) ==
    /\ Encodable(t.name)
    /\ Encodable(t.payment_description)
    /\ "property_location" \in t.keys => Encodable(t.property_location)

LastFailure == failed_tenants[Len(failed_tenants)]

\* The call for the current tenant recorded one failure and nothing else.
OneFailureRecorded ==
    /\ success_count = entry.s
    /\ failure_count = entry.f + 1
    /\ Len(failed_tenants) = entry.n + 1
    /\ LastFailure.tenant = Get(tenant, "name", JStr("Unknown"))
    /\ LastFailure.email = Get(tenant, "email", JStr("Unknown"))

\* The call for the current tenant counted one success and nothing else.
OneSuccessCounted ==
    /\ success_count = entry.s + 1
    /\ failure_count = entry.f
    /\ Len(failed_tenants) = entry.n

\* C1: no exception leaves send_email_reminder, whatever the elements of
\* the TENANTS array are: the run never dies in the reminder loop, and when
\* the loop is over every tenant of the list has been processed.
C1_FaultIsolation ==
    /\ pc # "crashed"
    /\ "SendingLog" \in {phases[i] : i \in 1..Len(phases)} => idx = Len(TENANTS)

\* C2: once configuration has passed, a run that has ended went through
\* SendingReminders and then SendingLog, each exactly once, and no run ever
\* enters the phases in another order.
C2_TwoPhases ==
    /\ phases \in {<<>>, <<"SendingReminders">>, BothPhases}
    /\ pc \in {"done", "crashed"} => phases = BothPhases

\* C3: with a missing or empty SMTP/landlord setting or a port that is not
\* an integer, the process never leaves the configuration steps except by
\* exit code 1, and no SMTP session is opened, whatever TENANTS holds.
C3_FatalConfig ==
    FatalConfig =>
        /\ pc \in {"start", "load_tenants", "parse_port", "exited", "load_crashed"}
        /\ Terminated => exit_code = 1
        /\ \A i \in 1..MaxTenants : opened[i] = 0
        /\ log_opened = 0
        /\ open = 0
        /\ phases = <<>>

C3_Witness ==
    /\ pc = "exited"
    /\ exit_code = 1
    /\ env.SMTP_PORT = "abc"
    /\ Len(TENANTS) > 0

\* TENANTS was read and is absent, empty, not JSON, or JSON that is not an array.
Degraded ==
    \/ TENANTS_ENV.raw \in {None, ""}
    \/ TENANTS_ENV.raw = "text" /\ TENANTS_ENV.json # "list"

\* C4: with valid SMTP settings and a TENANTS value that is absent, empty,
\* unparsable or not an array, the tenant list is empty, an error is logged,
\* no reminder session is opened, both counters stay 0, and a run that has
\* ended has gone through the log-email phase.
C4_DegradedTenants ==
    (Degraded /\ ~FatalConfig) =>
        /\ TENANTS = <<>>
        /\ logged \cap {"TENANTS missing", "TENANTS invalid JSON",
                        "TENANTS not an array"} # {}
        /\ \A i \in 1..MaxTenants : opened[i] = 0
        /\ success_count = 0 /\ failure_count = 0 /\ failed_tenants = <<>>
        /\ Terminated => pc = "done" /\ phases = BothPhases

\* C5: when send_email_reminder has returned for a tenant record that lacks
\* a required field, no SMTP session was opened for it, success_count is
\* unchanged, failure_count grew by 1, and one record was appended whose
\* reason names exactly the missing fields.
C5_MissingFields ==
    (pc = "returned" /\ tenant.type = "dict" /\ RequiredSet \ tenant.keys # {}) =>
        /\ opened[idx] = 0
        /\ OneFailureRecorded
        /\ LastFailure.reason.kind = "Missing fields"
        /\ {LastFailure.reason.fields[i] : i \in 1..Len(LastFailure.reason.fields)}
              = RequiredSet \ tenant.keys

C5_Witness ==
    /\ pc = "returned"
    /\ tenant.type = "dict"
    /\ Cardinality(RequiredSet \ tenant.keys) = 2
    /\ failure_count = entry.f + 1
    /\ idx = 2

\* C6: when send_email_reminder has returned for a tenant record that has
\* all required fields but whose payment_amount float() rejects, no SMTP
\* session was opened for it, success_count is unchanged, failure_count grew
\* by 1, and one record was appended whose reason holds the bad value.
C6_BadAmount ==
    (/\ pc = "returned"
     /\ tenant.type = "dict"
     /\ RequiredSet \subseteq tenant.keys
     /\ PyFloat(tenant.payment_amount) # "ok") =>
        /\ opened[idx] = 0
        /\ OneFailureRecorded
        /\ LastFailure.reason.kind = "Invalid payment_amount"
        /\ LastFailure.reason.text = PyStr(tenant.payment_amount)

ValidIdx == {i \in 1..Len(TENANTS) : Valid(TENANTS[i])}
InvalidIdx == {i \in 1..Len(TENANTS) : ~Valid(TENANTS[i])}

\* C7: when every SMTP step succeeded and the reminder phase is over,
\* success_count is the number of valid tenants, failure_count the number of
\* invalid ones, failed_tenants names the invalid tenants in list order, and
\* every valid tenant got its send attempt.
C7_Counts ==
    (all_ok /\ pc \in {"log_email", "crashed"}) =>
        /\ success_count = Cardinality(ValidIdx)
        /\ failure_count = Cardinality(InvalidIdx)
        /\ Len(failed_tenants) = Cardinality(InvalidIdx)
        /\ \A i \in InvalidIdx :
             LET k == Cardinality({j \in InvalidIdx : j <= i})
             IN /\ failed_tenants[k].tenant = Get(TENANTS[i], "name", JStr("Unknown"))
                /\ failed_tenants[k].email = Get(TENANTS[i], "email", JStr("Unknown"))
        /\ \A i \in ValidIdx : opened[i] = 1

\* C8 as stated: a tenant that passes validation gets exactly one SMTP
\* session, its call counts one success or records one failure, and the log
\* email gets at most one session.
C8_ExactlyOneSession ==
    /\ (pc = "returned" /\ Valid(tenant)) =>
          /\ opened[idx] = 1
          /\ OneSuccessCounted \/ OneFailureRecorded
    /\ log_opened <= 1

\* C8, amended: no tenant and no log email ever gets a second SMTP session.
\* A tenant that passes validation gets exactly one session when its message
\* can be built and none when building raises; its call either counts one
\* success, and then the one session carried the message, or records one
\* failure, never both.
C8_NoRetries ==
    /\ \A i \in 1..MaxTenants : opened[i] <= 1
    /\ log_opened <= 1
    /\ (pc = "returned" /\ Valid(tenant)) =>
          /\ opened[idx] = IF Buildable(tenant) THEN 1 ELSE 0
          /\ \/ OneSuccessCounted /\ opened[idx] = 1 /\ carried = 1
             \/ OneFailureRecorded

C8_Witness ==
    /\ pc = "returned"
    /\ Valid(tenant)
    /\ opened[idx] = 1
    /\ carried = 0
    /\ failure_count = entry.f + 1
    /\ LastFailure.reason.kind = "SMTP error"

InSession ==
    pc \in {"starttls", "login", "sendmail", "with_exit",
            "log_starttls", "log_login", "log_sendmail", "log_with_exit"}

\* Positions inside a with block where the next command is yet to be sent.
BeforeCommand == pc \in {"starttls", "login", "sendmail",
                         "log_starttls", "log_login", "log_sendmail"}

\* C9: at most one SMTP session is open, it is open only inside its with
\* block (where it stays open until a command loses the connection or the
\* block ends), it carries at most one message, and it is closed whenever
\* the next session is about to open and when the run has ended.
C9_ScopedSessions ==
    /\ open \in {0, 1}
    /\ carried <= 1
    /\ open = 1 => InSession
    /\ BeforeCommand => open = 1
    /\ pc \in {"connect", "log_connect"} => open = 0
    /\ Terminated => open = 0

\* starttls has failed in the handshake inside the first tenant's session:
\* a non-SMTP exception is leaving the block and the session is closed.
C9_Witness ==
    /\ pc = "with_exit"
    /\ pending = "other"
    /\ closed = 1
    /\ open = 0
    /\ carried = 0
    /\ opened[1] = 1
    /\ idx = 1
    /\ ~all_ok

\* C10: when a call of send_email_reminder has ended, the counters add up
\* to the number of calls made, every failure counted has its record, and
\* the call moved exactly one counter by one.
C10_Counters ==
    pc \in {"returned", "crashed"} =>
        /\ success_count + failure_count = idx
        /\ failure_count = Len(failed_tenants)
        /\ \/ success_count = entry.s + 1 /\ failure_count = entry.f
           \/ success_count = entry.s /\ failure_count = entry.f + 1

====
